---- MODULE Spec2Model ----
(***************************************************************************)
(* Model of scripts/cleanup.py (bay0/creso): the CReSOCleaner class and    *)
(* main().  Strings on which the program does character work (glob         *)
(* patterns, path segments, prompt answers, timestamps) are sequences of   *)
(* one-character strings; a path is the sequence of its segments relative  *)
(* to project_root.  The filesystem is a set of directories and a function *)
(* from file paths to file contents (a content is identified by its byte   *)
(* length).                                                                *)
(***************************************************************************)
EXTENDS Integers, Sequences, FiniteSets, TLC

(* ------------------------------ bounds -------------------------------- *)

\* Largest value the wall clock reaches, in ticks.
MaxClock == 2

\* Largest number of operating system errors injected into one run.
MaxFailures == 1

\* Clock ticks per second: strftime("%Y%m%d_%H%M%S") has one-second resolution.
TicksPerSecond == 2

(* --------------------------- character work ---------------------------- *)

\* The characters used, in code point order.
Ascii ==
  << " ", "*", ".", "/", "0", "1", "2", "3", "4", "5", "6", "7", "8", "9",
     "?", "A", "D", "E", "M", "N", "R", "S", "Y", "_",
     "a", "b", "c", "d", "e", "g", "i", "k", "l", "m", "n", "o", "p", "r",
     "s", "t", "u", "x", "y" >>

ord(c) == CHOOSE i \in 1..Len(Ascii) : Ascii[i] = c

\* str < str : lexicographic by code point.
RECURSIVE StrLess(_, _)
StrLess(a, b) ==
  IF b = << >> THEN FALSE
  ELSE IF a = << >> THEN TRUE
  ELSE IF Head(a) = Head(b) THEN StrLess(Tail(a), Tail(b))
  ELSE ord(Head(a)) < ord(Head(b))

\* Path.__lt__ : lexicographic on the tuple of segments.
RECURSIVE PathLess(_, _)
PathLess(p, q) ==
  IF q = << >> THEN FALSE
  ELSE IF p = << >> THEN TRUE
  ELSE IF Head(p) = Head(q) THEN PathLess(Tail(p), Tail(q))
  ELSE StrLess(Head(p), Head(q))

UpperCase == << "A", "D", "E", "M", "N", "R", "S", "Y" >>
LowerCase == << "a", "d", "e", "m", "n", "r", "s", "y" >>

\* str.lower()
lower(s) ==
  [i \in 1..Len(s) |->
     IF \E k \in 1..Len(UpperCase) : UpperCase[k] = s[i]
     THEN LowerCase[CHOOSE k \in 1..Len(UpperCase) : UpperCase[k] = s[i]]
     ELSE s[i]]

\* str.strip() : drop leading and trailing whitespace.
RECURSIVE lstrip(_)
lstrip(s) == IF s # << >> /\ Head(s) = " " THEN lstrip(Tail(s)) ELSE s

RECURSIVE rstrip(_, _)
rstrip(s, ch) ==
  IF s # << >> /\ s[Len(s)] = ch THEN rstrip(SubSeq(s, 1, Len(s) - 1), ch) ELSE s

strip(s) == rstrip(lstrip(s), " ")

\* str.endswith('/')
endswith(s, ch) == s # << >> /\ s[Len(s)] = ch

\* Segments of a pattern string: split on "/", empty segments dropped.
RECURSIVE SplitAcc(_, _, _)
SplitAcc(s, cur, acc) ==
  IF s = << >> THEN (IF cur = << >> THEN acc ELSE Append(acc, cur))
  ELSE IF Head(s) = "/"
       THEN SplitAcc(Tail(s), << >>, IF cur = << >> THEN acc ELSE Append(acc, cur))
       ELSE SplitAcc(Tail(s), Append(cur, Head(s)), acc)

Segments(s) == SplitAcc(s, << >>, << >>)

\* fnmatch of one segment against one pattern segment ("*" and "?").
RECURSIVE fnmatch(_, _)
fnmatch(s, p) ==
  IF p = << >> THEN s = << >>
  ELSE IF Head(p) = "*"
       THEN fnmatch(s, Tail(p)) \/ (s # << >> /\ fnmatch(Tail(s), p))
  ELSE IF Head(p) = "?"
       THEN s # << >> /\ fnmatch(Tail(s), Tail(p))
  ELSE s # << >> /\ Head(s) = Head(p) /\ fnmatch(Tail(s), Tail(p))

\* PurePath.match(pattern) for a relative pattern: the pattern's segments
\* are matched against the last segments of the path ("**" acts as "*").
match(path, pattern) ==
  LET segs == Segments(pattern)
      k    == Len(segs)
      n    == Len(path)
  IN  /\ k > 0
      /\ n >= k
      /\ \A i \in 1..k : fnmatch(path[n - k + i], segs[i])

\* strftime("%Y%m%d_%H%M%S") of the clock: the rendering of the whole second.
Digits == << "0", "1", "2", "3", "4", "5", "6", "7", "8", "9" >>

RECURSIVE ToDecimal(_)
ToDecimal(n) ==
  IF n < 10 THEN << Digits[n + 1] >>
  ELSE ToDecimal(n \div 10) \o << Digits[(n % 10) + 1] >>

strftime(now) == ToDecimal(now \div TicksPerSecond)

(* ------------------------------- paths --------------------------------- *)

IsPrefix(p, q) == Len(p) <= Len(q) /\ SubSeq(q, 1, Len(p)) = p

\* q lies strictly inside directory p.
Inside(q, p) == Len(p) < Len(q) /\ IsPrefix(p, q)

\* Path.parent and all directories above a path (the root excluded).
Parents(p) == { SubSeq(p, 1, k) : k \in 1..(Len(p) - 1) }

\* sorted(set) : the paths of S in increasing order.
RECURSIVE sorted(_)
sorted(S) ==
  IF S = {} THEN << >>
  ELSE LET m == CHOOSE x \in S : \A y \in S \ {x} : PathLess(x, y)
       IN  << m >> \o sorted(S \ {m})

(* --------------------------- configuration ----------------------------- *)

\* self.config: a .cleanrc holding a part of the default configuration.
protected_patterns ==
  << << "*", ".", "m", "d" >>,
     << "d", "o", "c", "s", "/", "*", "*", "/", "*" >> >>

\* list(cleanup_patterns.keys()) : the categories in insertion order.
available_categories == << "python_compiled", "results", "build" >>

cleanup_patterns ==
  [ python_compiled |-> << << "*", ".", "p", "y", "c" >> >>,
    results         |-> << << "*", ".", "p", "n", "g" >>,
                           << "r", "e", "s", "u", "l", "t", "s", "/" >> >>,
    build           |-> << << "b", "u", "i", "l", "d", "/" >> >> ]

backup_dir ==
  << "c", "l", "e", "a", "n", "u", "p", "_", "b", "a", "c", "k", "u", "p", "s" >>

(* ------------------------------- inputs -------------------------------- *)

N_a      == << "a" >>
N_docs   == << "d", "o", "c", "s" >>
N_img    == << "i", "m", "g" >>
N_res    == << "r", "e", "s", "u", "l", "t", "s" >>
N_build  == << "b", "u", "i", "l", "d" >>
N_xpyc   == << "x", ".", "p", "y", "c" >>
N_ylog   == << "y", ".", "l", "o", "g" >>
N_readme == << "r", "e", "a", "d", "m", "e", ".", "m", "d" >>
N_README == << "R", "E", "A", "D", "M", "E", ".", "m", "d" >>
N_ppng   == << "p", ".", "p", "n", "g" >>
N_xpng   == << "x", ".", "p", "n", "g" >>
N_toppng == << "t", "o", "p", ".", "p", "n", "g" >>
N_libpyc == << "l", "i", "b", ".", "p", "y", "c" >>

\* Project trees the tool is started on.
Tree1 ==
  [ dirs  |-> { << N_a >>, << N_docs >>, << N_docs, N_img >>,
                << N_docs, N_img, N_res >> },
    files |-> ( << N_a, N_xpyc >> :> 1 ) @@ ( << N_a, N_ylog >> :> 2 ) @@
              ( << N_docs, N_readme >> :> 4 ) @@
              ( << N_docs, N_img, N_ppng >> :> 8 ) @@
              ( << N_a, N_xpng >> :> 16 ) ]

Tree2 ==
  [ dirs  |-> { << N_res >>, << N_build >> },
    files |-> ( << N_res, N_xpng >> :> 1 ) @@ ( << N_toppng >> :> 2 ) @@
              ( << N_build, N_libpyc >> :> 4 ) @@
              ( << N_build, N_README >> :> 8 ) ]

Trees == { Tree1, Tree2 }

\* Positional arguments (args.categories) the tool is started with.
CategoryArgs ==
  { << >>,
    << "python_compiled" >>, << "results" >>, << "build" >>,
    << "python_compiled", "build" >>, << "build", "results" >>,
    << "bogus" >>, << "results", "bogus" >> }

\* Lines typed at the confirmation prompt.
Answers ==
  { << "y" >>, << " ", "Y", " " >>, << "s" >>, << "S" >>, << >>, << "n" >>,
    << "y", "e", "s" >> }

(* -------------------------------- state -------------------------------- *)

VARIABLES
  files,             \* file path -> content, the files on disk
  dirs,              \* the directories on disk
  clock,             \* datetime.now(), in ticks
  tree0,             \* the tree at start-up
  args,              \* parsed command line
  pc,                \* position of the process
  exit_status,       \* -1 while running, then the process exit status
  stats,             \* self.stats
  categories,        \* main / run_cleanup: the categories to clean
  ci,                \* run_cleanup: index of the category being cleaned
  total_files_found, \* run_cleanup
  total_size_found,  \* run_cleanup
  files_to_clean,    \* clean_category
  total_size,        \* clean_category
  fi,                \* clean_category: index of the entry being deleted
  timestamp,         \* delete_path
  response,          \* clean_category: the last line read by input()
  warnings,          \* the "Warning: Could not delete" lines printed
  stats_at_entry,    \* self.stats when clean_category was entered
  batch_roots        \* timestamps used by delete_path since clean_category was entered

vars ==
  << files, dirs, clock, tree0, args, pc, exit_status, stats, categories, ci,
     total_files_found, total_size_found, files_to_clean, total_size, fi,
     timestamp, response, warnings, stats_at_entry, batch_roots >>

NoResponse == << "<", "n", "o", "n", "e", ">" >>

ZeroStats == [ files_deleted |-> 0, dirs_deleted |-> 0, space_freed |-> 0 ]

(* ----------------------------- filesystem ------------------------------ *)

is_file(p) == p \in DOMAIN files
is_dir(p)  == p \in dirs

\* Everything below project_root.
AllPaths == DOMAIN files \cup dirs

\* project_root.rglob(pattern) for a pattern without "**": every entry
\* whose last segments match the segments of the pattern.
rglob(pattern) == { p \in AllPaths : match(p, pattern) }

\* path.rglob('*')
Descendants(path) == { q \in AllPaths : Inside(q, path) }

is_protected(path) ==
  \E i \in 1..Len(protected_patterns) : match(path, protected_patterns[i])

\* A faulty variant of FoundBy: the file branch forgets is_protected.
FoundBy_unprotected(pattern) ==
  IF endswith(pattern, "/")
  THEN { p \in rglob(rstrip(pattern, "/")) : is_dir(p) /\ ~is_protected(p) }
  ELSE { p \in rglob(pattern) : is_file(p) }

\* The entries one pattern contributes to found_files.
FoundBy(pattern) ==
  IF endswith(pattern, "/")
  THEN { p \in rglob(rstrip(pattern, "/")) : is_dir(p) /\ ~is_protected(p) }
  ELSE { p \in rglob(pattern) : is_file(p) /\ ~is_protected(p) }

find_files(patterns) ==
  sorted(UNION { FoundBy(patterns[i]) : i \in 1..Len(patterns) })

RECURSIVE SumContents(_)
SumContents(S) ==
  IF S = {} THEN 0
  ELSE LET f == CHOOSE x \in S : TRUE IN files[f] + SumContents(S \ {f})

get_file_size(path) ==
  IF is_file(path) THEN files[path]
  ELSE IF is_dir(path)
       THEN SumContents({ q \in Descendants(path) : is_file(q) })
       ELSE 0

\* sum(self.get_file_size(f) for f in files_to_clean)
RECURSIVE SumSizes(_)
SumSizes(s) ==
  IF s = << >> THEN 0 ELSE get_file_size(Head(s)) + SumSizes(Tail(s))

(* ------------------------- backup and removal -------------------------- *)

\* backup_dir / relative_path, for the backup root of one timestamp.
BackupRoot(ts) == << backup_dir, ts >>
BackupPath(ts, path) == BackupRoot(ts) \o path

\* The place of q, an entry of the tree at src, in the copy of src at dst.
Rebase(q, src, dst) == dst \o SubSeq(q, Len(src) + 1, Len(q))

\* The mkdir(parents=True, exist_ok=True) calls of backup_file.
BackupMkdirs(ts, path) ==
  { << backup_dir >>, BackupRoot(ts) } \cup Parents(BackupPath(ts, path))

\* Files written by shutil.copy2 / shutil.copytree(dirs_exist_ok=True)
\* when the files K of the entry are copied.
CopiedFiles(ts, path, K) ==
  [ d \in { Rebase(q, path, BackupPath(ts, path)) : q \in K } |->
      files[CHOOSE q \in K : Rebase(q, path, BackupPath(ts, path)) = d] ]

\* Directories made by shutil.copytree for the directories D of the entry.
CopiedDirs(ts, path, D) == { Rebase(q, path, BackupPath(ts, path)) : q \in D }

\* The files and the directories of the tree at an entry.
TreeFiles(path) ==
  IF is_file(path) THEN { path }
  ELSE IF is_dir(path) THEN { q \in Descendants(path) : is_file(q) }
  ELSE {}

TreeDirs(path) ==
  IF is_dir(path) THEN { path } \cup { q \in Descendants(path) : is_dir(q) }
  ELSE {}

\* What is left of the files when the entries R are removed.
Without(R) == [ q \in (DOMAIN files) \ R |-> files[q] ]

\* Sets of descendants a failing shutil.rmtree may already have removed:
\* a removed directory has lost all of its content.
RemovableParts(path) ==
  { R \in SUBSET Descendants(path) :
      \A d \in R, q \in Descendants(path) : Inside(q, d) => q \in R }

(* ------------------------------- actions ------------------------------- *)

Frame_run == UNCHANGED << tree0, args, clock >>

\* return from clean_category into the loop of run_cleanup (lines 218-222).
Return(found, size) ==
  /\ total_files_found' = total_files_found + Len(found)
  /\ total_size_found' = total_size_found + size
  /\ ci' = ci + 1
  /\ pc' = "run_cleanup"

\* A faulty variant of invalid_categories: nothing is reported invalid.
invalid_categories_none(cats) == {}

\* main: set(categories) - available_categories
invalid_categories(cats) ==
  { cats[i] : i \in 1..Len(cats) } \
  { available_categories[i] : i \in 1..Len(available_categories) }

\* main: the category list and its validation.
Validate ==
  /\ pc = "main"
  /\ LET cats == IF args.categories # << >> THEN args.categories
                 ELSE available_categories
     IN  /\ categories' = cats
         /\ IF invalid_categories(cats) # {}
            THEN /\ pc' = "exit"
                 /\ exit_status' = 1
                 /\ ci' = ci
            ELSE /\ pc' = "run_cleanup"
                 /\ exit_status' = exit_status
                 /\ ci' = 1
  /\ Frame_run
  /\ UNCHANGED << files, dirs, stats, total_files_found, total_size_found,
                  files_to_clean, total_size, fi, timestamp, response,
                  warnings, stats_at_entry, batch_roots >>

\* A faulty variant of Decision: dry_run is not looked at.
Decision_no_dry_run(found) ==
  IF found = << >> THEN "return"
  ELSE IF ~args.no_interactive THEN "prompt"
  ELSE "delete"

\* clean_category: what follows the listing of the entries found.
Decision(found) ==
  IF found = << >> THEN "return"
  ELSE IF args.dry_run THEN "return"
  ELSE IF ~args.no_interactive THEN "prompt"
  ELSE "delete"

\* run_cleanup: one turn of the category loop, that is clean_category up to
\* its prompt or its first deletion.
CleanCategory ==
  /\ pc = "run_cleanup"
  /\ ci <= Len(categories)
  /\ IF categories[ci] \in DOMAIN cleanup_patterns
     THEN LET found == find_files(cleanup_patterns[categories[ci]])
              size  == SumSizes(found)
          IN  /\ files_to_clean' = found
              /\ total_size' = size
              /\ stats_at_entry' = stats
              /\ batch_roots' = {}
              /\ IF Decision(found) = "return"
                 THEN /\ Return(found, size)
                      /\ fi' = fi
                 ELSE IF Decision(found) = "prompt"
                      THEN /\ pc' = "prompt"
                           /\ UNCHANGED << ci, total_files_found,
                                           total_size_found, fi >>
                      ELSE /\ pc' = "delete_path"
                           /\ fi' = 1
                           /\ UNCHANGED << ci, total_files_found,
                                           total_size_found >>
     ELSE /\ ci' = ci + 1
          /\ UNCHANGED << pc, files_to_clean, total_size, stats_at_entry,
                          batch_roots, total_files_found, total_size_found, fi >>
  /\ Frame_run
  /\ UNCHANGED << files, dirs, exit_status, stats, categories, timestamp,
                  response, warnings >>

\* A faulty variant of Skips: only "s" declines.
Skips_only_s(line) == strip(lower(line)) = << "s" >>

\* clean_category: the answers on which the category is left alone.
Skips(line) ==
  LET r == strip(lower(line))
  IN  IF r = << "s" >> THEN TRUE
      ELSE IF r # << "y" >> THEN TRUE
      ELSE FALSE

\* clean_category: the answer to "Delete these files? [y/N/s(kip)]".
Answer(line) ==
  /\ pc = "prompt"
  /\ response' = line
  /\ IF Skips(line)
     THEN /\ Return(files_to_clean, 0)
          /\ fi' = fi
     ELSE /\ pc' = "delete_path"
          /\ fi' = 1
          /\ UNCHANGED << ci, total_files_found, total_size_found >>
  /\ Frame_run
  /\ UNCHANGED << files, dirs, exit_status, stats, categories, files_to_clean,
                  total_size, timestamp, warnings, stats_at_entry, batch_roots >>

\* for file_path in files_to_clean: the next entry, or the end of the loop.
NextEntry ==
  IF fi < Len(files_to_clean)
  THEN /\ fi' = fi + 1
       /\ pc' = "delete_path"
  ELSE /\ fi' = fi
       /\ pc' = "deleted"

\* except (OSError, PermissionError): the warning of clean_category.
Warn(cause) ==
  warnings' = Append(warnings,
                [ category |-> ci, path |-> files_to_clean[fi], cause |-> cause ])

\* The clock advances while the process runs; it is read in delete_path only.
Tick ==
  /\ pc = "delete_path"
  /\ args.backup
  /\ clock < MaxClock
  /\ clock' = clock + 1
  /\ UNCHANGED << files, dirs, tree0, args, pc, exit_status, stats, categories,
                  ci, total_files_found, total_size_found, files_to_clean,
                  total_size, fi, timestamp, response, warnings,
                  stats_at_entry, batch_roots >>

\* delete_path, backup branch: backup_file succeeds.
BackupOk ==
  /\ pc = "delete_path"
  /\ args.backup
  /\ LET path == files_to_clean[fi]
         ts   == strftime(clock)
     IN  /\ timestamp' = ts
         /\ batch_roots' = batch_roots \cup { ts }
         /\ dirs' = dirs \cup BackupMkdirs(ts, path)
                         \cup CopiedDirs(ts, path, TreeDirs(path))
         /\ files' = CopiedFiles(ts, path, TreeFiles(path)) @@ files
  /\ pc' = "remove"
  /\ Frame_run
  /\ UNCHANGED << exit_status, stats, categories, ci, total_files_found,
                  total_size_found, files_to_clean, total_size, fi, response,
                  warnings, stats_at_entry >>

\* delete_path, backup branch: backup_file raises OSError, after the
\* directories were made (or not) and the files K were copied; a file that
\* is itself the entry is left truncated when it was begun.
BackupFail(made, K) ==
  /\ pc = "delete_path"
  /\ args.backup
  /\ Len(warnings) < MaxFailures
  /\ LET path == files_to_clean[fi]
         ts   == strftime(clock)
     IN  /\ K \subseteq TreeFiles(path)
         /\ ~made => K = {}
         /\ timestamp' = ts
         /\ batch_roots' = batch_roots \cup { ts }
         /\ dirs' = IF made
                    THEN dirs \cup BackupMkdirs(ts, path)
                              \cup CopiedDirs(ts, path,
                                     UNION { Parents(q) : q \in K } \cap TreeDirs(path))
                    ELSE dirs
         /\ files' = IF is_file(path)
                     THEN [ d \in { BackupPath(ts, q) : q \in K } |-> 0 ] @@ files
                     ELSE CopiedFiles(ts, path, K) @@ files
  /\ Warn("backup")
  /\ NextEntry
  /\ Frame_run
  /\ UNCHANGED << exit_status, stats, categories, ci, total_files_found,
                  total_size_found, files_to_clean, total_size, response,
                  stats_at_entry >>

\* A faulty variant of AtRemove: the removal does not wait for the backup.
AtRemove_unordered == pc = "remove" \/ pc = "delete_path"

\* delete_path reaches "size = ..." at once without backup, and with backup
\* only when backup_file has returned.
AtRemove == pc = "remove" \/ (pc = "delete_path" /\ ~args.backup)

\* delete_path from "size = ..." on: the entry is measured and removed.
RemoveOk ==
  /\ AtRemove
  /\ LET path == files_to_clean[fi]
         size == get_file_size(path)
     IN  IF is_file(path)
         THEN /\ files' = Without({ path })
              /\ dirs' = dirs
              /\ stats' = [ stats EXCEPT !.files_deleted = @ + 1,
                                         !.space_freed = @ + size ]
         ELSE IF is_dir(path)
         THEN /\ files' = Without(Descendants(path))
              /\ dirs' = dirs \ ({ path } \cup Descendants(path))
              /\ stats' = [ stats EXCEPT !.dirs_deleted = @ + 1,
                                         !.space_freed = @ + size ]
         ELSE /\ UNCHANGED << files, dirs >>
              /\ stats' = [ stats EXCEPT !.space_freed = @ + size ]
  /\ NextEntry
  /\ Frame_run
  /\ UNCHANGED << exit_status, categories, ci, total_files_found,
                  total_size_found, files_to_clean, total_size, timestamp,
                  response, warnings, stats_at_entry, batch_roots >>

\* delete_path: path.unlink() or shutil.rmtree(path) raises OSError; rmtree
\* may have removed the part R of the directory before it failed.
RemoveFail(R) ==
  /\ AtRemove
  /\ Len(warnings) < MaxFailures
  /\ LET path == files_to_clean[fi]
     IN  /\ is_file(path) \/ is_dir(path)
         /\ IF is_file(path) THEN R = {} ELSE R \in RemovableParts(path)
         /\ files' = Without(R)
         /\ dirs' = dirs \ R
  /\ Warn("delete")
  /\ NextEntry
  /\ Frame_run
  /\ UNCHANGED << exit_status, stats, categories, ci, total_files_found,
                  total_size_found, files_to_clean, total_size, timestamp,
                  response, stats_at_entry, batch_roots >>

\* clean_category returns after its loop (lines 197-198, 221-222).
FinishCategory ==
  /\ pc = "deleted"
  /\ Return(files_to_clean, total_size)
  /\ Frame_run
  /\ UNCHANGED << files, dirs, exit_status, stats, categories, files_to_clean,
                  total_size, fi, timestamp, response, warnings,
                  stats_at_entry, batch_roots >>

\* run_cleanup prints the summary and main returns.
Summary ==
  /\ pc = "run_cleanup"
  /\ ci > Len(categories)
  /\ pc' = "exit"
  /\ exit_status' = 0
  /\ Frame_run
  /\ UNCHANGED << files, dirs, stats, categories, ci, total_files_found,
                  total_size_found, files_to_clean, total_size, fi, timestamp,
                  response, warnings, stats_at_entry, batch_roots >>

Init ==
  /\ tree0 \in Trees
  /\ files = tree0.files
  /\ dirs = tree0.dirs
  /\ clock = 0
  /\ args \in [ categories : CategoryArgs, dry_run : BOOLEAN,
                backup : BOOLEAN, no_interactive : BOOLEAN ]
  /\ pc = "main"
  /\ exit_status = -1
  /\ stats = ZeroStats
  /\ categories = << >>
  /\ ci = 0
  /\ total_files_found = 0
  /\ total_size_found = 0
  /\ files_to_clean = << >>
  /\ total_size = 0
  /\ fi = 0
  /\ timestamp = << >>
  /\ response = NoResponse
  /\ warnings = << >>
  /\ stats_at_entry = ZeroStats
  /\ batch_roots = {}

Next ==
  \/ Validate
  \/ CleanCategory
  \/ \E line \in Answers : Answer(line)
  \/ Tick
  \/ BackupOk
  \/ /\ pc = "delete_path"
     /\ \E made \in BOOLEAN : \E K \in SUBSET TreeFiles(files_to_clean[fi]) :
          BackupFail(made, K)
  \/ RemoveOk
  \/ /\ AtRemove
     /\ \E R \in RemovableParts(files_to_clean[fi]) : RemoveFail(R)
  \/ FinishCategory
  \/ Summary

Spec == Init /\ [][Next]_vars

(* ------------------------------ properties ----------------------------- *)

\* A category pattern selects p when protection is left out of account.
SelectedByCategory(p, c) ==
  \E i \in 1..Len(cleanup_patterns[c]) :
    LET pattern == cleanup_patterns[c][i]
    IN  IF endswith(pattern, "/")
        THEN is_dir(p) /\ match(p, rstrip(pattern, "/"))
        ELSE is_file(p) /\ match(p, pattern)

\* The warnings printed for the category being cleaned.
WarningsHere == { i \in 1..Len(warnings) : warnings[i].category = ci }

\* C1: no path whose root-relative path matches a protected pattern appears
\* in the result of find_files, whichever category pattern selects it.
C1_ProtectedNeverFound ==
  \A i \in 1..Len(files_to_clean) :
    \A k \in 1..Len(protected_patterns) :
      ~match(files_to_clean[i], protected_patterns[k])

\* A scan has returned entries while the tree holds a protected file that a
\* pattern of the scanned category selects.
C1_Witness ==
  /\ pc \in { "prompt", "delete_path" }
  /\ fi <= 1
  /\ files_to_clean # << >>
  /\ \E p \in AllPaths :
       /\ is_protected(p)
       /\ SelectedByCategory(p, categories[ci])

\* C2: every file that matched a protected pattern before the run is still
\* on disk, also inside a directory selected by a directory pattern.
C2_ProtectedFilesKept ==
  \A p \in DOMAIN tree0.files :
    is_protected(p) => (p \in DOMAIN files /\ files[p] = tree0.files[p])

\* C3: with dry_run the tree is left as it was, no backup directory is made
\* and the stats stay at zero.
C3_DryRunNoEffect ==
  args.dry_run =>
    /\ files = tree0.files
    /\ dirs = tree0.dirs
    /\ stats = ZeroStats

\* A dry run with backup requested has ended after it found entries.
C3_Witness ==
  /\ args.dry_run
  /\ args.backup
  /\ pc = "exit"
  /\ exit_status = 0
  /\ total_files_found > 0

\* C4: at the prompt, an answer other than "y" (lower-cased and stripped)
\* deletes and backs up nothing, leaves the stats alone and hands over to
\* the next category.
C4_OnlyYesDeletes ==
  [][ (pc = "prompt" /\ strip(lower(response')) # << "y" >>) =>
        /\ files' = files
        /\ dirs' = dirs
        /\ stats' = stats
        /\ pc' = "run_cleanup"
        /\ ci' = ci + 1 ]_vars

\* A later category is prompted after an earlier one was declined.
C4_Witness ==
  /\ pc = "prompt"
  /\ ci > 1
  /\ response \in { << "s" >>, << >>, << "y", "e", "s" >> }
  /\ files = tree0.files
  /\ stats = ZeroStats

\* C5: with backup, whatever a step removes from disk had a complete copy at
\* its relative path under the timestamped backup root before the step and
\* has it after; a step on which the backup fails leaves the entry on disk
\* and the stats as they were, and goes on to the next entry.
C5_BackupPrecedesDeletion ==
  [][ args.backup =>
        /\ \A q \in (DOMAIN files) \ (DOMAIN files') :
             LET d == BackupPath(timestamp, q)
             IN  /\ d \in DOMAIN files /\ files[d] = files[q]
                 /\ d \in DOMAIN files' /\ files'[d] = files[q]
        /\ \A q \in dirs \ dirs' :
             BackupPath(timestamp, q) \in dirs \cap dirs'
        /\ ( /\ Len(warnings') > Len(warnings)
             /\ warnings'[Len(warnings')].cause = "backup" ) =>
             LET path == files_to_clean[fi]
             IN  /\ \A q \in TreeFiles(path) :
                      q \in DOMAIN files' /\ files'[q] = files[q]
                 /\ TreeDirs(path) \subseteq dirs'
                 /\ stats' = stats
                 /\ \/ pc' = "delete_path" /\ fi' = fi + 1
                    \/ pc' = "deleted" /\ fi = Len(files_to_clean) ]_vars

\* A run with backup has ended in which one entry was left in place by a
\* failed backup and another was removed and has its copy.
C5_Witness ==
  /\ args.backup
  /\ pc = "exit"
  /\ \E i \in 1..Len(warnings) :
       /\ warnings[i].cause = "backup"
       /\ warnings[i].path \in AllPaths
  /\ \E q \in DOMAIN tree0.files :
       /\ q \notin DOMAIN files
       /\ \E t \in batch_roots :
            /\ BackupPath(t, q) \in DOMAIN files
            /\ files[BackupPath(t, q)] = tree0.files[q]

\* C6: when the deletion of exactly one of the N entries of a category
\* fails, the count of deleted files and directories grows by N - 1.
C6_AllButOneCounted ==
  ( /\ pc = "deleted"
    /\ Cardinality(WarningsHere) = 1
    /\ \A i \in WarningsHere : warnings[i].cause = "delete" ) =>
    (stats.files_deleted + stats.dirs_deleted)
      - (stats_at_entry.files_deleted + stats_at_entry.dirs_deleted)
    = Len(files_to_clean) - 1

\* C7: for a category whose entries were all deleted without error, the
\* growth of space_freed equals the total size computed before the deletion.
C7_SizeSnapshot ==
  ( /\ pc = "deleted"
    /\ WarningsHere = {} ) =>
    stats.space_freed - stats_at_entry.space_freed = total_size

\* C8: with a category name that is not configured the run ends with exit
\* status 1 and nothing on disk or in the stats has changed.
C8_UnknownCategoryAborts ==
  ( /\ pc # "main"
    /\ \E i \in 1..Len(args.categories) :
         args.categories[i] \notin DOMAIN cleanup_patterns ) =>
    /\ pc = "exit"
    /\ exit_status = 1
    /\ files = tree0.files
    /\ dirs = tree0.dirs
    /\ stats = ZeroStats

\* The run was refused although a valid category with entries to delete was
\* named and neither dry_run nor the prompt would have held it back.
C8_Witness ==
  /\ pc = "exit"
  /\ exit_status = 1
  /\ args.categories = << "results", "bogus" >>
  /\ ~args.dry_run
  /\ args.no_interactive
  /\ \E p \in AllPaths : SelectedByCategory(p, "results") /\ ~is_protected(p)

\* C9: the entries backed up during one clean_category call are under one
\* backup root.
C9_OneBackupRoot == Cardinality(batch_roots) <= 1

\* C10: the result of find_files is sorted and duplicate-free, and none of
\* its entries lies inside a directory that is itself an entry.
C10_WholeUnits ==
  /\ \A i, j \in 1..Len(files_to_clean) :
       i < j => PathLess(files_to_clean[i], files_to_clean[j])
  /\ \A i, j \in 1..Len(files_to_clean) :
       ~Inside(files_to_clean[j], files_to_clean[i])

====
